---- MODULE Spec2Model ----
(***************************************************************************)
(* Model of controllers/chatController.js (src/unnamed/part_000): the      *)
(* answer-resolution handler handleChat, its module-level state (the       *)
(* follow-up memory slot and the embedding cache) and llmMeaningMatch.     *)
(*                                                                         *)
(* A text is a sequence of characters; a character is a one-element        *)
(* string, except "BULLET" (U+2022) and "RSQUO" (U+2019), which stand for  *)
(* the two non-ASCII characters the source uses.  Scores are integers in   *)
(* thousandths (0.11 is 110).  An optional value is a sequence of length   *)
(* 0 (undefined) or 1.                                                     *)
(*                                                                         *)
(* handleChat is an async function: the code between two awaits runs       *)
(* without interruption, and a request is suspended at every awaited       *)
(* call.  Each action below is one such uninterrupted segment, taken by    *)
(* one in-flight request, together with the outcome of the awaited call    *)
(* that resumes it.                                                        *)
(***************************************************************************)
EXTENDS Integers, Sequences, FiniteSets, TLC

(***************************************************************************)
(* Bounds of the model.                                                    *)
(***************************************************************************)
\* Requests served in one run.
MaxRequests == 3

\* Clients; each sends its next request after the response to its previous
\* one, and requests of different clients are in flight together.
Callers == {"A", "B"}

(***************************************************************************)
(* Program constants.                                                      *)
(***************************************************************************)
\* finalUser.length <= 4
SHORT == 4
\* m._score >= 0.08
MULTI == 80
\* const MIN = 0.11
MIN == 110
\* const GAP = 0.06
GAP == 60
\* const TRUST = 0.55
TRUST == 550
\* findTopMatches(vector, EMBEDDINGS, normalized, 5)
TOPK == 5

(***************************************************************************)
(* Text primitives of JavaScript strings, as the code uses them.           *)
(***************************************************************************)
IsSpace(ch) == ch \in {" ", "\n", "\t"}

RECURSIVE TrimStart(_)
TrimStart(s) ==
    IF s # <<>> /\ IsSpace(Head(s)) THEN TrimStart(Tail(s)) ELSE s

RECURSIVE TrimEnd(_)
TrimEnd(s) ==
    IF s # <<>> /\ IsSpace(s[Len(s)])
    THEN TrimEnd(SubSeq(s, 1, Len(s) - 1))
    ELSE s

Trim(s) == TrimEnd(TrimStart(s))

UpperCaseLetters ==
    << "A","B","C","D","E","F","G","H","I","J","K","L","M",
       "N","O","P","Q","R","S","T","U","V","W","X","Y","Z" >>

LowerCaseLetters ==
    << "a","b","c","d","e","f","g","h","i","j","k","l","m",
       "n","o","p","q","r","s","t","u","v","w","x","y","z" >>

LowerChar(ch) ==
    IF \E i \in 1..26 : UpperCaseLetters[i] = ch
    THEN LowerCaseLetters[CHOOSE i \in 1..26 : UpperCaseLetters[i] = ch]
    ELSE ch

ToLowerCase(s) == [i \in 1..Len(s) |-> LowerChar(s[i])]

StartsWith(s, p) == Len(p) <= Len(s) /\ SubSeq(s, 1, Len(p)) = p

Includes(s, p) ==
    \E i \in 1..(Len(s) + 1) :
        i + Len(p) - 1 <= Len(s) /\ SubSeq(s, i, i + Len(p) - 1) = p

\* s.split(/\s+/): the pieces between maximal runs of white space; a run at
\* either end leaves an empty piece there, and "" splits into [""].
RECURSIVE SplitFrom(_, _)
SplitFrom(s, piece) ==
    IF s = <<>> THEN << piece >>
    ELSE IF IsSpace(Head(s))
         THEN << piece >> \o SplitFrom(TrimStart(s), <<>>)
         ELSE SplitFrom(Tail(s), Append(piece, Head(s)))

Split(s) == SplitFrom(s, <<>>)

\* parts.join(sep)
RECURSIVE Join(_, _)
Join(parts, sep) ==
    IF parts = <<>> THEN <<>>
    ELSE IF Len(parts) = 1 THEN parts[1]
    ELSE parts[1] \o sep \o Join(Tail(parts), sep)

(***************************************************************************)
(* Fixed texts.                                                            *)
(***************************************************************************)
\* smartFallback()
SmartFallback == <<
    "I"," ","d","o","n","RSQUO","t"," ","h","a","v","e"," ","t","h","a","t",
    " ","i","n","f","o","r","m","a","t","i","o","n"," ","i","n"," ","m","y",
    " ","d","a","t","a","."," ","P","l","e","a","s","e"," ","v","i","s","i",
    "t"," ","h","t","t","p","s",":","/","/","m","o","n","t","f","o","r","t",
    "i","c","s","e",".","i","n","/"," ","o","r"," ","c","o","n","t","a","c",
    "t"," ","t","h","e"," ","s","c","h","o","o","l"," ","o","f","f","i","c",
    "e"," ","f","o","r"," ","o","f","f","i","c","i","a","l"," ","d","e","t",
    "a","i","l","s","." >>

QuestionRequired == <<
    "q","u","e","s","t","i","o","n"," ","i","s"," ","r","e","q","u","i","r",
    "e","d" >>

FallbackHost == <<
    "m","o","n","t","f","o","r","t","i","c","s","e",".","i","n" >>

FallbackLead == <<
    "i"," ","d","o","n","RSQUO","t"," ","h","a","v","e"," ","t","h","a","t",
    " ","i","n","f","o","r","m","a","t","i","o","n" >>

(***************************************************************************)
(* Inputs and collaborator outcomes.  The collaborators live outside the   *)
(* controller; each call returns one of the listed outcomes.               *)
(***************************************************************************)
Fees  == << "f","e","e","s" >>
Bus   == << "b","u","s" >>
Rules == << "r","u","l","e","s" >>

\* req.body.question: absent, not a string, or a string.
Bodies ==
    { [type |-> "undefined", text |-> <<>>],
      [type |-> "number",    text |-> <<>>] }
    \cup { [type |-> "string", text |-> t] :
             t \in { <<>>, << " " >>, Fees, << " " >> \o Bus \o << " " >>,
                     Rules } }

\* aiIntentRouter(question, panoNames, projectNames)
RouterResults ==
    { [kind |-> "value", intent |-> "none",    target |-> <<>>],
      [kind |-> "value", intent |-> "pano",    target |-> << "l","a","b" >>],
      [kind |-> "value", intent |-> "project", target |-> << "z","o","o" >>],
      [kind |-> "undefined"],
      [kind |-> "throw"] }

\* correctSpelling(finalUser): the text as it was, a corrected text, the
\* input text after a failure the service handled itself ("degrades to
\* input text on error"), or an exception.
SpellResults(text, kinds) ==
    { r \in { [kind |-> "value", text |-> text, how |-> "same"],
              [kind |-> "value", text |-> Fees, how |-> "fixed"],
              [kind |-> "value", text |-> text, how |-> "failed"],
              [kind |-> "throw", text |-> <<>>, how |-> "throw"] } :
        r.how \in kinds }

\* The normalized queries: the empty one, a one-word one, a two-word one.
NormalizedQueries == { <<>>, Fees, Bus \o << " " >> \o Fees }

\* normalizeToMeaning(corrected): a canonical text, a degraded text after a
\* failure the service handled itself, or an exception.
NormResults ==
    { [kind |-> "value", text |-> t, how |-> h] :
        t \in NormalizedQueries, h \in { "ok", "failed" } }
    \cup { [kind |-> "throw", text |-> <<>>, how |-> "throw"] }

\* embedText(normalized): a vector (possibly of length 0), undefined, or an
\* exception.
Vectors == { <<>>, << 1 >> }

EmbedResults ==
    { [kind |-> "value", vector |-> v] : v \in Vectors }
    \cup { [kind |-> "undefined"], [kind |-> "throw"] }

\* The knowledge store, as loadEmbeddingsOnce leaves it after the first
\* request; no request changes it afterwards.
EMBEDDINGS ==
    << [question |-> << "f","e","e" >>, answer |-> << "9","k" >>],
       [question |-> << "v","a","n" >>, answer |-> << " " >>] >>

Scores == { 79, 80, 109, 110, 490, 549, 550 }

Min(a, b) == IF a < b THEN a ELSE b

Abs(x) == IF x < 0 THEN 0 - x ELSE x

Candidate(i, s) ==
    [question |-> EMBEDDINGS[i].question, answer |-> EMBEDDINGS[i].answer,
     _score |-> s]

\* findTopMatches(vector, EMBEDDINGS, normalized, k): at most k candidates
\* over distinct entries of the store, in descending order of score.
RankingsOfLength(n) ==
    { r \in [1..n -> { Candidate(i, s) : i \in 1..Len(EMBEDDINGS),
                                          s \in Scores }] :
        /\ \A i, j \in 1..n : i < j => r[i]._score >= r[j]._score
        /\ \A i, j \in 1..n : i # j => r[i].question # r[j].question }

Rankings ==
    UNION { RankingsOfLength(n) : n \in 0..Min(TOPK, Len(EMBEDDINGS)) }

\* The rankings at the thresholds only.
CoreRankings ==
    { r \in Rankings :
        /\ \A i \in 1..Len(r) : r[i].question = EMBEDDINGS[i].question
        /\ Len(r) >= 1 => r[1]._score \in { 79, 550 }
        /\ Len(r) >= 2 => r[2]._score \in { 79, 490, 550 } }

MatcherResults(R, faults) ==
    { [kind |-> "value", list |-> r] : r \in R }
    \cup { [kind |-> k] : k \in faults }

\* answerGeneralQuestion(prompt): a text, null, a value that is not a
\* string, or an exception.
ReplyTexts ==
    { << "y","e","s" >>, << " ","Y","e","s","\n" >>, << "y","e","s","." >>,
      << "n","o" >>, << "N","O"," " >>, <<>>, << "m","a","y","b","e" >>,
      SmartFallback }

LlmResults ==
    { [kind |-> "value", text |-> t] : t \in ReplyTexts }
    \cup { [kind |-> "null"], [kind |-> "object"], [kind |-> "throw"] }

(***************************************************************************)
(* The handler's decisions, as pure operators.                             *)
(***************************************************************************)
Stages ==
    { "aiIntentRouter", "correctSpelling", "normalizeToMeaning", "embedText",
      "findTopMatches", "answerGeneralQuestion" }

\* As if the via tag were left out.
AnswerUntagged(text, via) == [answer |-> text]

\* res.json({ answer: ..., via: "..." })
Answer(text, via) == [answer |-> text, via |-> via]

\* As if only the type were tested.
RejectedNotString(body) == body.type # "string"

\* if (!question || typeof question !== "string")
Rejected(body) == body.type # "string" \/ body.text = <<>>

\* As if the try block ended before the embedding step.
GuardedUntilEmbed(stage) ==
    stage \in { "aiIntentRouter", "correctSpelling", "normalizeToMeaning" }

\* The whole body of handleChat is one try block whose catch answers; an
\* exception raised while a stage runs is caught there.
Guarded(stage) == stage \in Stages

\* As if a text that came back degraded were taken for a failed call.
AbortsOnFailure(res) == res.kind = "throw" \/ res.how = "failed"

\* const corrected = await correctSpelling(finalUser) and const normalized =
\* await normalizeToMeaning(corrected), inside the try block: the request
\* leaves the pipeline only when the awaited call throws; whatever text the
\* call returns is passed on.
Aborts(res) == res.kind = "throw"

\* As if only the second test were there.
BypassesProject(route) == route.intent = "project"

\* As if only the first test were there.
BypassesPano(route) == route.intent = "pano"

\* if (aiIntent.intent === "pano") ... if (aiIntent.intent === "project")
Bypasses(route) == route.intent \in { "pano", "project" }

\* As if the slot of another caller were never read.
MemoryMergeIsolated(mem, question) == question

\* if (memory && finalUser.length <= 4) finalUser = memory + " " + finalUser
MemoryMerge(mem, question) ==
    IF mem # <<>> /\ Len(question) <= SHORT
    THEN mem \o << " " >> \o question
    ELSE question

\* As if the slot were overwritten only when nothing was merged.
MemoryStoreUnlessMerged(question, finalUser) ==
    IF finalUser = question THEN question
    ELSE SubSeq(finalUser, 1, Len(finalUser) - Len(question) - 1)

\* As if the merged text were stored.
MemoryStoreMerged(question, finalUser) == finalUser

\* memory = question
MemoryStore(question, finalUser) == question

\* EMB_CACHE.get(key): the stored value if there is one that is not
\* undefined.
CacheGet(cache, key) ==
    IF key \in DOMAIN cache THEN << cache[key] >> ELSE <<>>

\* As if an entry already there were kept.
CacheSetIfAbsent(cache, key, value) ==
    IF key \in DOMAIN cache THEN cache
    ELSE IF value = <<>> THEN cache
    ELSE [k \in DOMAIN cache \cup { key } |->
            IF k = key THEN value[1] ELSE cache[k]]

\* EMB_CACHE.set(key, value); value is optional, and storing undefined makes
\* get(key) return undefined again.
CacheSet(cache, key, value) ==
    IF value = <<>>
    THEN [k \in DOMAIN cache \ { key } |-> cache[k]]
    ELSE [k \in DOMAIN cache \cup { key } |->
            IF k = key THEN value[1] ELSE cache[k]]

\* As if an array of length 0 were falsy.
CacheMissOnEmpty(found) == found = <<>> \/ found[1] = <<>>

\* if (!vector): only undefined is falsy, an array of length 0 is not
CacheMiss(found) == found = <<>>

\* As if the test were `!vector`.
NoVectorNever(vector) == FALSE

\* if (!vector.length)
NoVector(vector) == Len(vector) = 0

\* normalized.split(/\s+/).length
TokenCount(normalized) == Len(Split(normalized))

\* As if the comparison were `>`.
QualifiesAbove(m) == m._score > MULTI

Qualifies(m) == m._score >= MULTI

Bulleted(m) == << "BULLET", " " >> \o m.answer

\* matches.filter(m => m._score >= 0.08).map(m => `• ${m.answer}`)
\*        .join("\n\n")
MultiMatchList(matches) ==
    LET kept == SelectSeq(matches, Qualifies)
    IN  Join([i \in 1..Len(kept) |-> Bulleted(kept[i])], << "\n", "\n" >>)

\* tokenCount <= 1 and list.trim() is not empty
MultiMatches(normalized, matches) ==
    TokenCount(normalized) <= 1 /\ Trim(MultiMatchList(matches)) # <<>>

\* As if the comparison were `<=`.
LowInclusive(best) == best._score <= MIN

\* const low = best._score < MIN
Low(best) == best._score < MIN

\* const ambi = second && Math.abs(best._score - second._score) < GAP
Ambi(best, second) ==
    second # <<>> /\ Abs(best._score - second[1]._score) < GAP

Second(matches) == IF Len(matches) >= 2 THEN << matches[2] >> ELSE <<>>

\* As if the reply were tested with startsWith.
LlmMeaningMatchLoose(res) ==
    IF res.kind \in { "throw", "object" } THEN "null"
    ELSE LET out == IF res.kind = "null" THEN <<>> ELSE res.text
             ans == ToLowerCase(Trim(out))
         IN  IF StartsWith(ans, << "y","e","s" >>) THEN "true"
             ELSE IF StartsWith(ans, << "n","o" >>) THEN "false"
             ELSE "null"

\* llmMeaningMatch, from the outcome of answerGeneralQuestion on.
LlmMeaningMatch(res) ==
    IF res.kind \in { "throw", "object" } THEN "null"
    ELSE LET out == IF res.kind = "null" THEN <<>> ELSE res.text
             ans == ToLowerCase(Trim(out))
         IN  IF ans = << "y","e","s" >> THEN "true"
             ELSE IF ans = << "n","o" >> THEN "false"
             ELSE IF Includes(ans, FallbackHost) \/ StartsWith(ans, FallbackLead)
                  THEN "null"
                  ELSE "null"

\* As if a confirmed match still needed a score that is not low.
ArbiterResponseScored(ok, best, low) ==
    IF ok = "true" /\ ~low THEN Answer(best.answer, "llm-validated")
    ELSE IF ok = "false" \/ ok = "true"
         THEN Answer(SmartFallback, "llm-reject")
    ELSE IF ~low /\ best._score >= TRUST
         THEN Answer(best.answer, "semantic-llm-unavailable")
         ELSE Answer(SmartFallback, "llm-unavailable")

\* As if the trusted score had to exceed TRUST.
ArbiterResponseAbove(ok, best, low) ==
    IF ok = "true" THEN Answer(best.answer, "llm-validated")
    ELSE IF ok = "false" THEN Answer(SmartFallback, "llm-reject")
    ELSE IF ~low /\ best._score > TRUST
         THEN Answer(best.answer, "semantic-llm-unavailable")
         ELSE Answer(SmartFallback, "llm-unavailable")

\* The three cases after `const ok = await llmMeaningMatch(...)`.
ArbiterResponse(ok, best, low) ==
    IF ok = "true" THEN Answer(best.answer, "llm-validated")
    ELSE IF ok = "false" THEN Answer(SmartFallback, "llm-reject")
    ELSE IF ~low /\ best._score >= TRUST
         THEN Answer(best.answer, "semantic-llm-unavailable")
         ELSE Answer(SmartFallback, "llm-unavailable")

\* 9) DIRECT SEMANTIC MATCH
DirectResponse(best) == Answer(best.answer, "semantic")

(***************************************************************************)
(* State.                                                                  *)
(***************************************************************************)
VARIABLES
    memory,      \* let memory = ""
    EMB_CACHE,   \* const EMB_CACHE = new Map(), by what get() returns
    pc,          \* where each caller's request stands
    frame,       \* the locals of each caller's suspended request
    sent,        \* the responses res.json has sent for each caller's request
    raised,      \* whether the promise of handleChat rejected
    called,      \* history: the collaborators the request has called
    threw,       \* history: the stages at which an exception was raised
    nreq,        \* history: requests received so far
    lastRaw,     \* history: raw question of the latest memory-merge step
    shortRun,    \* history: latest merge steps in a row with a short question
    seen,        \* history: normalized queries that requests have reached
    first,       \* history: the vector first stored for a normalized query
    failed,      \* history: the normalization calls of the request that
                 \*          failed and returned a degraded text
    last         \* history: the locals of the step just taken, if it ranked
                 \*          or responded

vars ==
    << memory, EMB_CACHE, pc, frame, sent, raised, called, threw, nreq,
       lastRaw, shortRun, seen, first, failed, last >>

\* question, finalUser, corrected, normalized, vector, matches, low, ambi and
\* ok are the handler's locals, body is req.body.question and route is
\* aiIntent; a suspended request keeps those it reads again and the
\* argument of the call it awaits.  prior and repeat are history: the raw
\* question of the merge step before this one, and whether an earlier
\* request had reached the same normalized query; reply is history too: the
\* outcome of the call of answerGeneralQuestion.
NoBody == [type |-> "undefined", text |-> <<>>]

NoRoute == [kind |-> "undefined"]

NoFrame ==
    [body |-> NoBody, route |-> NoRoute,
     question |-> <<>>, finalUser |-> <<>>, prior |-> <<>>,
     corrected |-> <<>>, normalized |-> <<>>, repeat |-> FALSE,
     vector |-> <<>>, matches |-> <<>>, low |-> FALSE, ambi |-> FALSE,
     ok |-> "unset", reply |-> [kind |-> "none"]]

NoLast == [caller |-> "none", step |-> "none", locals |-> NoFrame]

InFlight(c) == pc[c] \notin { "idle", "done" }

\* As if a suspended request were resumed only while no other request is in
\* flight.
ReadySerial(c, at) == pc[c] = at /\ \A d \in Callers \ { c } : ~InFlight(d)

\* A request suspended at an await is resumed when the call it awaits
\* settles, wherever the other requests stand.
Ready(c, at) == pc[c] = at

Init ==
    /\ memory = <<>>
    /\ EMB_CACHE = << >>
    /\ pc = [c \in Callers |-> "idle"]
    /\ frame = [c \in Callers |-> NoFrame]
    /\ sent = [c \in Callers |-> <<>>]
    /\ raised = [c \in Callers |-> FALSE]
    /\ called = [c \in Callers |-> {}]
    /\ threw = [c \in Callers |-> {}]
    /\ nreq = 0
    /\ lastRaw = <<>>
    /\ shortRun = 0
    /\ seen = {}
    /\ first = << >>
    /\ failed = [c \in Callers |-> {}]
    /\ last = NoLast

(***************************************************************************)
(* Steps of one request.                                                   *)
(***************************************************************************)
\* The request of caller c moves on: its position, the locals it keeps, its
\* responses and its histories.
Update(c, position, fr, responses, rejected, calls, throws) ==
    /\ pc' = [pc EXCEPT ![c] = position]
    /\ frame' = [frame EXCEPT ![c] = fr]
    /\ sent' = [sent EXCEPT ![c] = responses]
    /\ raised' = [raised EXCEPT ![c] = rejected]
    /\ called' = [called EXCEPT ![c] = calls]
    /\ threw' = [threw EXCEPT ![c] = throws]

Record(c, step, locals) ==
    last' = [caller |-> c, step |-> step, locals |-> locals]

\* res.json(response); return.  Where the answer is `await smartFallback()`,
\* the await takes one tick in which the request reads and writes nothing
\* shared; the tick is part of this step.
Respond(c, step, locals, response, calls) ==
    /\ Update(c, "done", NoFrame, Append(sent[c], response), raised[c],
              calls, threw[c])
    /\ Record(c, step, locals)

\* An exception is raised while `stage` runs: the catch block answers with
\* the fallback text, via "error".
Raise(c, step, stage, locals, calls) ==
    /\ IF Guarded(stage)
       THEN Update(c, "done", NoFrame,
                   Append(sent[c], Answer(SmartFallback, "error")),
                   raised[c], calls, threw[c] \cup { stage })
       ELSE Update(c, "done", NoFrame, sent[c], TRUE, calls,
                   threw[c] \cup { stage })
    /\ Record(c, step, locals)

\* Lines 130-170: validation, routing, memory merge, call of correctSpelling.
Enter(c, U) ==
    /\ ~InFlight(c)
    /\ nreq < MaxRequests
    /\ nreq' = nreq + 1
    /\ failed' = [failed EXCEPT ![c] = {}]
    /\ UNCHANGED << EMB_CACHE, seen, first >>
    /\ \E body \in U.bodies, route \in U.routes :
         LET question == Trim(body.text)
             asked    == [NoFrame EXCEPT !.body = body, !.route = route,
                                         !.question = question]
         IN  IF Rejected(body)
             THEN /\ Update(c, "done", NoFrame,
                            << [answer |-> QuestionRequired] >>, FALSE, {}, {})
                  /\ Record(c, "reject", [NoFrame EXCEPT !.body = body])
                  /\ UNCHANGED << memory, lastRaw, shortRun >>
             ELSE IF route.kind # "value"
             THEN /\ Update(c, "done", NoFrame,
                            IF Guarded("aiIntentRouter")
                            THEN << Answer(SmartFallback, "error") >>
                            ELSE <<>>,
                            ~Guarded("aiIntentRouter"),
                            { "aiIntentRouter" }, { "aiIntentRouter" })
                  /\ Record(c, "route", asked)
                  /\ UNCHANGED << memory, lastRaw, shortRun >>
             ELSE IF Bypasses(route)
             THEN /\ Update(c, "done", NoFrame,
                            << [intent |-> route.intent,
                                target |-> route.target] >>,
                            FALSE, { "aiIntentRouter" }, {})
                  /\ Record(c, "route", asked)
                  /\ UNCHANGED << memory, lastRaw, shortRun >>
             ELSE LET finalUser == MemoryMerge(memory, question)
                  IN  /\ memory' = MemoryStore(question, finalUser)
                      /\ lastRaw' = question
                      /\ shortRun' =
                           IF question # <<>> /\ Len(question) <= SHORT
                           THEN shortRun + 1 ELSE 0
                      /\ Update(c, "spell",
                                [NoFrame EXCEPT !.question = question,
                                                !.finalUser = finalUser,
                                                !.prior = lastRaw],
                                <<>>, FALSE,
                                { "aiIntentRouter", "correctSpelling" }, {})
                      /\ Record(c, "merge",
                                [asked EXCEPT !.finalUser = finalUser,
                                              !.prior = lastRaw])

\* A request arrives while no other request is in flight.
EnterAlone(c, U) ==
    /\ \A d \in Callers : ~InFlight(d)
    /\ Enter(c, U)

\* Lines 170-176: correctSpelling settles; normalizeToMeaning is called.
SpellReturns(c, U) ==
    /\ Ready(c, "spell")
    /\ UNCHANGED << memory, EMB_CACHE, nreq, lastRaw, shortRun, seen, first >>
    /\ \E res \in SpellResults(frame[c].finalUser, U.spells) :
         /\ failed' = [failed EXCEPT ![c] =
                         IF res.how = "failed"
                         THEN @ \cup { "correctSpelling" } ELSE @]
         /\ IF Aborts(res)
            THEN Raise(c, "spell", "correctSpelling", frame[c], called[c])
            ELSE /\ Update(c, "norm",
                           [NoFrame EXCEPT !.corrected = res.text],
                           sent[c], raised[c],
                           called[c] \cup { "normalizeToMeaning" }, threw[c])
                 /\ last' = NoLast

\* Lines 190-281, from the vector on: the length test, the ranking, the
\* one-word mode, the score validation and the call of llmMeaningMatch,
\* whose first step is the call of answerGeneralQuestion.
Resolve(c, locals, calls, U) ==
    IF NoVector(locals.vector[1])
    THEN Respond(c, "vector", locals, Answer(SmartFallback, "no-vector"),
                 calls)
    ELSE \E found \in MatcherResults(U.rankings, U.faults) :
           LET ranked == calls \cup { "findTopMatches" }
           IN  IF found.kind # "value"
               THEN Raise(c, "rank", "findTopMatches", locals, ranked)
               ELSE LET matches == found.list
                        best    == matches[1]
                        second  == Second(matches)
                        low     == Low(best)
                        ambi    == Ambi(best, second)
                        ranking == [locals EXCEPT !.matches = matches]
                        scored  == [ranking EXCEPT !.low = low,
                                                   !.ambi = ambi]
                    IN  IF matches = <<>>
                        THEN Respond(c, "rank", ranking,
                                     Answer(SmartFallback, "no-match"), ranked)
                        ELSE IF MultiMatches(locals.normalized[1], matches)
                        THEN Respond(c, "rank", ranking,
                                     Answer(MultiMatchList(matches),
                                            "multi-match"), ranked)
                        ELSE IF low \/ ambi
                        THEN /\ Update(c, "llm",
                                       [NoFrame EXCEPT
                                          !.matches = << best >>,
                                          !.low = low],
                                       sent[c], raised[c],
                                       ranked \cup { "answerGeneralQuestion" },
                                       threw[c])
                             /\ Record(c, "score", scored)
                        ELSE Respond(c, "score", scored,
                                     DirectResponse(best), ranked)

\* Lines 176-188: normalizeToMeaning settles; the cache is looked up and, on
\* a miss, embedText is called.
NormReturns(c, U) ==
    /\ Ready(c, "norm")
    /\ UNCHANGED << memory, EMB_CACHE, nreq, lastRaw, shortRun, first >>
    /\ \E res \in U.norms :
         /\ failed' = [failed EXCEPT ![c] =
                         IF res.how = "failed"
                         THEN @ \cup { "normalizeToMeaning" } ELSE @]
         /\ IF Aborts(res)
            THEN /\ Raise(c, "norm", "normalizeToMeaning", frame[c],
                          called[c])
                 /\ UNCHANGED seen
            ELSE LET normalized == res.text
                     found == CacheGet(EMB_CACHE, normalized)
                     fr == [NoFrame EXCEPT !.normalized = << normalized >>,
                                           !.repeat = normalized \in seen]
                 IN  /\ seen' = seen \cup { normalized }
                     /\ IF CacheMiss(found)
                        THEN /\ Update(c, "embed", fr, sent[c], raised[c],
                                       called[c] \cup { "embedText" },
                                       threw[c])
                             /\ last' = NoLast
                        ELSE Resolve(c, [fr EXCEPT !.vector = found],
                                     called[c], U)

\* Lines 186-188: embedText settles and its result is stored.
EmbedReturns(c, U) ==
    /\ Ready(c, "embed")
    /\ UNCHANGED << memory, nreq, lastRaw, shortRun, seen, failed >>
    /\ \E res \in U.embeds :
         IF res.kind = "throw"
         THEN /\ UNCHANGED << EMB_CACHE, first >>
              /\ Raise(c, "embed", "embedText", frame[c], called[c])
         ELSE LET vector == IF res.kind = "value" THEN << res.vector >>
                            ELSE <<>>
              IN  /\ EMB_CACHE' =
                       CacheSet(EMB_CACHE, frame[c].normalized[1], vector)
                  /\ first' =
                       IF frame[c].normalized[1] \in DOMAIN first
                       THEN first
                       ELSE CacheSet(first, frame[c].normalized[1], vector)
                  /\ IF vector = <<>>
                     THEN Raise(c, "embed", "embedText", frame[c], called[c])
                     ELSE Resolve(c, [frame[c] EXCEPT !.vector = vector],
                                  called[c], U)

\* Lines 100-122: answerGeneralQuestion settles inside llmMeaningMatch, which
\* settles with true, false or null.
LlmReturns(c, U) ==
    /\ Ready(c, "llm")
    /\ UNCHANGED << memory, EMB_CACHE, nreq, lastRaw, shortRun, seen, first,
                    failed >>
    /\ \E res \in U.replies :
         /\ Update(c, "arbiter",
                   [frame[c] EXCEPT !.ok = LlmMeaningMatch(res)],
                   sent[c], raised[c], called[c],
                   IF res.kind \in { "throw", "object" }
                   THEN threw[c] \cup { "answerGeneralQuestion" }
                   ELSE threw[c])
         /\ Record(c, "llm",
                   [frame[c] EXCEPT !.ok = LlmMeaningMatch(res),
                                    !.reply = res])

\* Lines 239-272: handleChat resumes with the result of llmMeaningMatch.
ArbiterResumes(c) ==
    /\ Ready(c, "arbiter")
    /\ UNCHANGED << memory, EMB_CACHE, nreq, lastRaw, shortRun, seen, first,
                    failed >>
    /\ Respond(c, "arbiter", frame[c],
               ArbiterResponse(frame[c].ok, frame[c].matches[1],
                               frame[c].low),
               called[c])

(***************************************************************************)
(* Specifications.                                                         *)
(***************************************************************************)
\* Every input and every outcome listed above, the collaborators' failures
\* included.
Full ==
    [bodies |-> Bodies, routes |-> RouterResults,
     spells |-> { "same", "fixed", "failed", "throw" }, norms |-> NormResults,
     embeds |-> EmbedResults, rankings |-> Rankings,
     faults |-> { "undefined", "throw" }, replies |-> LlmResults]

\* The collaborators keep their contracts: the router, the spelling, the
\* normalization, the embedding and the matcher return a value of their
\* type; only the call of the language model may fail.
Sound ==
    [Full EXCEPT
       !.routes = { r \in RouterResults : r.kind = "value" },
       !.spells = { "same", "fixed", "failed" },
       !.norms = { r \in NormResults : r.kind = "value" },
       !.embeds = { r \in EmbedResults : r.kind = "value" },
       !.faults = {}]

\* The inputs and outcomes that tell the paths of a request apart, failures
\* included.
Core ==
    [bodies |-> { b \in Bodies :
                    b.type # "undefined" /\ b.text \notin { << " " >>, Rules } },
     routes |-> { r \in RouterResults : r.kind # "undefined" },
     spells |-> { "same", "throw" },
     norms |-> { r \in NormResults :
                   r.kind = "value" => r.text # <<>> /\ r.how = "ok" },
     embeds |-> EmbedResults,
     rankings |-> CoreRankings,
     faults |-> { "throw" },
     replies |-> { r \in LlmResults :
                     r.kind = "value" =>
                       r.text \in { << "y","e","s" >>, << "n","o" >>,
                                    SmartFallback } }]

\* Requests of different callers in flight together.
Next ==
    \E c \in Callers :
        \/ Enter(c, Core)
        \/ SpellReturns(c, Core)
        \/ NormReturns(c, Core)
        \/ EmbedReturns(c, Core)
        \/ LlmReturns(c, Core)
        \/ ArbiterResumes(c)

Spec == Init /\ [][Next]_vars

\* One request at a time, all of one caller, over every input and every
\* outcome the collaborators' contracts allow.
NextAlone ==
    \E c \in { "A" } :
        \/ EnterAlone(c, Sound)
        \/ SpellReturns(c, Sound)
        \/ NormReturns(c, Sound)
        \/ EmbedReturns(c, Sound)
        \/ LlmReturns(c, Sound)
        \/ ArbiterResumes(c)

SpecAlone == Init /\ [][NextAlone]_vars

\* One input or outcome for every way a step of a request can go.
Paths ==
    [bodies |-> { b \in Core.bodies : b.text \in { <<>>, Fees } },
     routes |-> { r \in Core.routes :
                    r.kind = "value" => r.intent \in { "none", "pano" } },
     spells |-> Core.spells,
     norms |-> Core.norms,
     embeds |-> { r \in EmbedResults : r.kind # "undefined" },
     rankings |-> { r \in CoreRankings :
                      Len(r) = 2 => r[1]._score = 550 /\ r[2]._score # 79 },
     faults |-> { "throw" },
     replies |-> { r \in Core.replies :
                     r.kind = "value" => r.text = << "y","e","s" >> }]

\* The steps in which a suspended request of caller c is resumed.
Returns(c, U) ==
    \/ SpellReturns(c, U)
    \/ NormReturns(c, U)
    \/ EmbedReturns(c, U)
    \/ LlmReturns(c, U)
    \/ ArbiterResumes(c)

NextFair == \E c \in Callers : Enter(c, Paths) \/ Returns(c, Paths)

\* Requests of different callers in flight together, where every awaited
\* call eventually returns or throws and the event loop eventually runs the
\* continuation of every settled await.
SpecFair ==
    /\ Init
    /\ [][NextFair]_vars
    /\ \A c \in Callers : WF_vars(Returns(c, Paths))

TypeOK ==
    /\ pc \in [Callers -> { "idle", "spell", "norm", "embed", "llm",
                            "arbiter", "done" }]
    /\ nreq \in 0..MaxRequests
    /\ \A c \in Callers : Len(sent[c]) <= 1

(***************************************************************************)
(* Claims.                                                                 *)
(***************************************************************************)
ErrorResponse == [answer |-> SmartFallback, via |-> "error"]

Responded(c) == pc[c] = "done"

\* The request whose step was the last one taken, and that step's locals.
Actor == last.caller

Locals == last.locals

\* C1, as stated: every request that has returned sent exactly one response
\* and raised nothing to its caller, and if an exception was raised at any
\* stage of it, that response is the fallback text via "error".
C1_AnyExceptionAnswersError ==
    \A c \in Callers :
        /\ InFlight(c) => sent[c] = <<>> /\ ~raised[c]
        /\ Responded(c) =>
             /\ Len(sent[c]) = 1
             /\ ~raised[c]
             /\ threw[c] # {} => sent[c][1] = ErrorResponse

\* C1, amended: exactly one response and nothing raised to the caller; an
\* exception raised at a stage other than the call of answerGeneralQuestion
\* is answered with the fallback text via "error", and an exception of
\* answerGeneralQuestion is taken as an arbiter result of null, answered via
\* "semantic-llm-unavailable" or "llm-unavailable".
C1_ErrorContract ==
    \A c \in Callers :
        /\ InFlight(c) => sent[c] = <<>> /\ ~raised[c]
        /\ Responded(c) =>
             /\ Len(sent[c]) = 1
             /\ ~raised[c]
             /\ threw[c] \ { "answerGeneralQuestion" } # {} =>
                  sent[c][1] = ErrorResponse
             /\ threw[c] = { "answerGeneralQuestion" } =>
                  /\ DOMAIN sent[c][1] = { "answer", "via" }
                  /\ sent[c][1].via \in { "semantic-llm-unavailable",
                                          "llm-unavailable" }

\* A request answered via "error" after embedText threw, while another
\* request is in flight.
C1_Witness ==
    \E c, d \in Callers :
        /\ Responded(c)
        /\ threw[c] = { "embedText" }
        /\ sent[c] = << ErrorResponse >>
        /\ InFlight(d)

\* The locals of a request at score validation.
AtScoreValidation == last.step = "score"

IsLow(best) == best._score < MIN

IsAmbiguous(matches) ==
    /\ Len(matches) >= 2
    /\ matches[1]._score - matches[2]._score < GAP
    /\ matches[2]._score - matches[1]._score < GAP

\* C2: a request at score validation whose best score is neither low
\* (< 0.11) nor ambiguous (a second candidate less than 0.06 away) is
\* answered with the best answer via "semantic" without a call of
\* answerGeneralQuestion; otherwise answerGeneralQuestion is called.
C2_ScoreValidation ==
    AtScoreValidation =>
        LET matches == Locals.matches
            best    == matches[1]
        IN  IF ~IsLow(best) /\ ~IsAmbiguous(matches)
            THEN /\ Responded(Actor)
                 /\ sent[Actor] =
                      << [answer |-> best.answer, via |-> "semantic"] >>
                 /\ "answerGeneralQuestion" \notin called[Actor]
            ELSE /\ pc[Actor] = "llm"
                 /\ sent[Actor] = <<>>
                 /\ "answerGeneralQuestion" \in called[Actor]

\* A gap of exactly 0.06 answered via "semantic".
C2_Witness ==
    /\ AtScoreValidation
    /\ Len(Locals.matches) = 2
    /\ Locals.matches[1]._score - Locals.matches[2]._score = GAP
    /\ Responded(Actor)
    /\ sent[Actor][1].via = "semantic"

AfterArbiter == last.step = "arbiter"

\* C3: after the arbiter, a result of true is answered with the best answer
\* via "llm-validated" and a result of false with the fallback text via
\* "llm-reject", whatever the best score.
C3_ArbiterVerdict ==
    AfterArbiter =>
        /\ Locals.ok = "true" =>
             sent[Actor] = << [answer |-> Locals.matches[1].answer,
                               via |-> "llm-validated"] >>
        /\ Locals.ok = "false" =>
             sent[Actor] = << [answer |-> SmartFallback,
                               via |-> "llm-reject"] >>

\* A match confirmed at a score below 0.11.
C3_Witness ==
    /\ AfterArbiter
    /\ Locals.ok = "true"
    /\ Locals.matches[1]._score < MIN
    /\ sent[Actor][1].via = "llm-validated"

\* C4: after the arbiter, a result of null is answered with the best answer
\* via "semantic-llm-unavailable" exactly when the best score is not low and
\* is at least 0.55, and with the fallback text via "llm-unavailable"
\* otherwise.
C4_ArbiterUnknown ==
    AfterArbiter /\ Locals.ok = "null" =>
        LET best == Locals.matches[1]
        IN  IF ~IsLow(best) /\ best._score >= TRUST
            THEN sent[Actor] = << [answer |-> best.answer,
                                   via |-> "semantic-llm-unavailable"] >>
            ELSE sent[Actor] = << [answer |-> SmartFallback,
                                   via |-> "llm-unavailable"] >>

\* A score of exactly 0.55 accepted after a result of null.
C4_Witness ==
    /\ AfterArbiter
    /\ Locals.ok = "null"
    /\ Locals.matches[1]._score = TRUST
    /\ sent[Actor][1].via = "semantic-llm-unavailable"

Ranked == last.step \in { "rank", "score" }

OneToken(text) == \A i \in 1..Len(text) : ~IsSpace(text[i])

RECURSIVE BulletsFrom(_, _)
BulletsFrom(matches, started) ==
    IF matches = <<>> THEN <<>>
    ELSE IF Head(matches)._score >= MULTI
         THEN (IF started THEN << "\n", "\n" >> ELSE <<>>)
              \o << "BULLET", " " >> \o Head(matches).answer
              \o BulletsFrom(Tail(matches), TRUE)
         ELSE BulletsFrom(Tail(matches), started)

IsMultiMatch(responses) ==
    /\ responses # <<>>
    /\ "via" \in DOMAIN responses[1]
    /\ responses[1].via = "multi-match"

\* C5: a ranked request whose normalized query is one token and that has a
\* candidate with score >= 0.08 is answered via "multi-match" with the
\* bulleted answers of exactly the candidates with score >= 0.08, in the
\* descending order of the ranking and a blank line apart, without a call
\* of answerGeneralQuestion; a query of more tokens is never answered via
\* "multi-match".
C5_MultiMatch ==
    /\ Ranked =>
         LET matches == Locals.matches
         IN  /\ \A i, j \in 1..Len(matches) :
                  i < j => matches[i]._score >= matches[j]._score
             /\ ( /\ OneToken(Locals.normalized[1])
                  /\ \E i \in 1..Len(matches) : matches[i]._score >= MULTI )
                => /\ Responded(Actor)
                   /\ sent[Actor] =
                        << [answer |-> BulletsFrom(matches, FALSE),
                            via |-> "multi-match"] >>
                   /\ "answerGeneralQuestion" \notin called[Actor]
    /\ \A c \in Callers :
         IsMultiMatch(sent[c]) =>
            /\ Actor = c
            /\ last.step = "rank"
            /\ OneToken(Locals.normalized[1])

\* A one-word query with a candidate at exactly 0.08 and one below it.
C5_Witness ==
    /\ last.step = "rank"
    /\ OneToken(Locals.normalized[1])
    /\ Len(Locals.matches) = 2
    /\ Locals.matches[1]._score = MULTI
    /\ Locals.matches[2]._score < MULTI
    /\ IsMultiMatch(sent[Actor])

\* C6: the text passed to correctSpelling is the raw question of the merge
\* step before, a blank and the raw question when the former is not empty
\* and the latter has at most 4 characters, and the raw question otherwise;
\* the slot holds the raw question of the latest merge step.
C6_MemoryMerge ==
    /\ memory = lastRaw
    /\ \A c \in Callers :
         pc[c] = "spell" =>
            frame[c].finalUser =
               IF frame[c].prior # <<>> /\ Len(frame[c].question) <= SHORT
               THEN frame[c].prior \o << " " >> \o frame[c].question
               ELSE frame[c].question

\* The third of three short questions in a row, merged with the second.
C6_Witness ==
    /\ shortRun = 3
    /\ \E c \in Callers :
         /\ pc[c] = "spell"
         /\ frame[c].prior # <<>>
         /\ frame[c].prior # frame[c].question
         /\ frame[c].finalUser =
              frame[c].prior \o << " " >> \o frame[c].question

HasVector == last.step \in { "vector", "rank", "score" }

\* C7: of the requests that run one after the other, one whose normalized
\* query an earlier one reached does not call embedText and uses the vector
\* the first of them stored, of whatever length; one whose normalized query
\* none reached before calls embedText.
C7_Memoization ==
    /\ \A c \in Callers : pc[c] = "embed" => ~frame[c].repeat
    /\ HasVector =>
         IF Locals.repeat
         THEN /\ "embedText" \notin called[Actor]
              /\ Locals.normalized[1] \in DOMAIN first
              /\ Locals.vector = << first[Locals.normalized[1]] >>
         ELSE "embedText" \in called[Actor]

\* A second request that found a vector of length 0 in the cache.
C7_Witness ==
    /\ HasVector
    /\ Locals.repeat
    /\ Locals.vector = << <<>> >>
    /\ "embedText" \notin called[Actor]
    /\ Responded(Actor)

\* C8: a request whose vector has length 0 is answered with the fallback
\* text via "no-vector" and calls neither findTopMatches nor
\* answerGeneralQuestion.
C8_NoVector ==
    Locals.vector = << <<>> >> =>
        /\ Responded(Actor)
        /\ sent[Actor] = << [answer |-> SmartFallback, via |-> "no-vector"] >>
        /\ called[Actor] \cap { "findTopMatches", "answerGeneralQuestion" }
             = {}

\* A vector of length 0 that embedText returned.
C8_Witness ==
    /\ Locals.vector = << <<>> >>
    /\ "embedText" \in called[Actor]
    /\ sent[Actor][1].via = "no-vector"

\* The step in which handleChat is entered for caller c.
Entering(c) == nreq' = nreq + 1 /\ last'.caller = c

BadQuestion(body) == body.type # "string" \/ body.text = <<>>

\* C9: a request without a question, or whose question is not a string or is
\* the empty string, is answered {answer: "question is required"}, leaves
\* the memory slot and the cache as they are and calls no collaborator.
C9_QuestionRequired ==
    [][ \A c \in Callers :
          Entering(c) /\ BadQuestion(last'.locals.body) =>
             /\ pc'[c] = "done"
             /\ sent'[c] = << [answer |-> QuestionRequired] >>
             /\ memory' = memory
             /\ EMB_CACHE' = EMB_CACHE
             /\ called'[c] = {} ]_vars

\* A question that is not a string, rejected while the slot and the cache
\* hold something.
C9_Witness ==
    /\ last.step = "reject"
    /\ Locals.body.type = "number"
    /\ sent[Actor] = << [answer |-> QuestionRequired] >>
    /\ memory # <<>>
    /\ DOMAIN EMB_CACHE # {}

\* C10: a request that the router sends to a pano or a project is answered
\* with the router's intent and target, calls no other collaborator and
\* leaves the cache as it is.
C10_RoutingBypass ==
    [][ \A c \in Callers :
          ( /\ Entering(c)
            /\ ~BadQuestion(last'.locals.body)
            /\ last'.locals.route.kind = "value"
            /\ last'.locals.route.intent \in { "pano", "project" } )
          => /\ pc'[c] = "done"
             /\ sent'[c] = << [intent |-> last'.locals.route.intent,
                               target |-> last'.locals.route.target] >>
             /\ called'[c] = { "aiIntentRouter" }
             /\ EMB_CACHE' = EMB_CACHE ]_vars

\* A request sent to a project while the cache holds something.
C10_Witness ==
    /\ last.step = "route"
    /\ Locals.route.intent = "project"
    /\ sent[Actor] = << [intent |-> "project", target |-> Locals.route.target] >>
    /\ DOMAIN EMB_CACHE # {}

ViaTags ==
    { "multi-match", "semantic", "llm-validated", "semantic-llm-unavailable",
      "no-vector", "no-match", "llm-reject", "llm-unavailable", "error" }

IsRouting(r) ==
    /\ DOMAIN r = { "intent", "target" }
    /\ r.intent \in { "pano", "project" }

IsTagged(r) == DOMAIN r = { "answer", "via" } /\ r.via \in ViaTags

\* C11, as stated: every response sent is {intent, target} or {answer, via}
\* with via one of the nine tags; none carries an answer without a via tag.
C11_TwoShapes ==
    \A c \in Callers :
        \A i \in 1..Len(sent[c]) : IsRouting(sent[c][i]) \/ IsTagged(sent[c][i])

\* C11, amended: every response sent is {intent, target}, or {answer, via}
\* with via one of the nine tags, or, for a request that calls no
\* collaborator because its question is missing, not a string or empty, the
\* untagged {answer: "question is required"}; no other response lacks a via
\* tag.
C11_ThreeShapes ==
    \A c \in Callers :
        \A i \in 1..Len(sent[c]) :
            LET r == sent[c][i]
            IN  \/ IsRouting(r) /\ called[c] = { "aiIntentRouter" }
                \/ IsTagged(r) /\ called[c] # {}
                \/ r = [answer |-> QuestionRequired] /\ called[c] = {}

\* One caller answered without a tag, the other with a routing target.
C11_Witness ==
    \E c, d \in Callers :
        /\ sent[c] = << [answer |-> QuestionRequired] >>
        /\ called[c] = {}
        /\ sent[d] # <<>>
        /\ IsRouting(sent[d][1])

\* The request entered in this step reaches the memory step: its question
\* passes the validation and the router returns an intent that is neither
\* "pano" nor "project".
ReachesMemory(body, route) ==
    /\ ~BadQuestion(body)
    /\ route.kind = "value"
    /\ route.intent \notin { "pano", "project" }

\* C12, as stated: every request that carries a non-empty string question
\* leaves that question (trimmed) in the memory slot, whatever its outcome,
\* a routing bypass included, and no later step of a request changes the
\* slot.
C12_AlwaysOverwritten ==
    [][ /\ \A c \in Callers :
             Entering(c) /\ ~BadQuestion(last'.locals.body) =>
                memory' = Trim(last'.locals.body.text)
        /\ (\A c \in Callers : ~Entering(c)) => memory' = memory ]_vars

\* C12, amended: a request that reaches the memory step leaves its trimmed
\* question in the slot, whatever its later outcome (answer, fallback or
\* error); a request that is rejected, sent to a pano or a project, or whose
\* router call fails, leaves the slot as it was; no later step of a request
\* changes the slot.
C12_OverwrittenOnMerge ==
    [][ /\ \A c \in Callers :
             Entering(c) =>
                IF ReachesMemory(last'.locals.body, last'.locals.route)
                THEN memory' = Trim(last'.locals.body.text)
                ELSE memory' = memory
        /\ (\A c \in Callers : ~Entering(c)) => memory' = memory ]_vars

\* A request sent to a pano, which leaves an earlier question in the slot.
C12_Witness ==
    /\ last.step = "route"
    /\ Locals.route.kind = "value"
    /\ Locals.route.intent = "pano"
    /\ Locals.question # <<>>
    /\ memory # <<>>
    /\ memory # Locals.question

LaterTags == ViaTags \ { "error" }

C14_EventuallyResponds ==
    /\ [](\A c \in Callers : InFlight(c) => ENABLED Returns(c, Paths))
    /\ \A c \in Callers :
         InFlight(c) ~> (Responded(c) /\ Len(sent[c]) = 1)

\* A request that responded after suspending at all four calls, while the
\* request of another caller is still suspended.
C14_Witness ==
    \E c, d \in Callers :
        /\ Responded(c)
        /\ { "correctSpelling", "normalizeToMeaning", "embedText",
             "answerGeneralQuestion" } \subseteq called[c]
        /\ Len(sent[c]) = 1
        /\ InFlight(d)

\* The step in which llmMeaningMatch settled, with the outcome of its call
\* of answerGeneralQuestion.
AfterReply == last.step = "llm"

IsLetter(ch, lower) ==
    \/ ch = lower
    \/ \E i \in 1..26 : LowerCaseLetters[i] = lower /\ UpperCaseLetters[i] = ch

\* The text is the word, in letters of either case, between white space.
SaysExactly(text, word) ==
    \E i \in 0..Len(text) :
        /\ i + Len(word) <= Len(text)
        /\ \A k \in 1..i : IsSpace(text[k])
        /\ \A k \in 1..Len(word) : IsLetter(text[i + k], word[k])
        /\ \A k \in (i + Len(word) + 1)..Len(text) : IsSpace(text[k])

\* C15: llmMeaningMatch never throws and settles with true, false or null:
\* true exactly when the reply is a text that says "yes" (trimmed, in any
\* case), false exactly when it says "no", and null for every other reply
\* (none, empty, the fallback text, "yes.") and when answerGeneralQuestion
\* throws.
C15_TriState ==
    AfterReply =>
        LET res == Locals.reply
            ok  == Locals.ok
        IN  /\ pc[Actor] = "arbiter"
            /\ frame[Actor].ok = ok
            /\ ~raised[Actor]
            /\ sent[Actor] = <<>>
            /\ ok \in { "true", "false", "null" }
            /\ ok = "true" <=>
                 res.kind = "value" /\ SaysExactly(res.text, << "y","e","s" >>)
            /\ ok = "false" <=>
                 res.kind = "value" /\ SaysExactly(res.text, << "n","o" >>)
            /\ res.kind = "throw" => ok = "null"

\* A reply of "yes." taken as null.
C15_Witness ==
    /\ AfterReply
    /\ Locals.reply = [kind |-> "value", text |-> << "y","e","s","." >>]
    /\ Locals.ok = "null"
    /\ pc[Actor] = "arbiter"

\* Caller c is resumed in this step with a vector from embedText.
Embedded(c) ==
    /\ pc[c] = "embed"
    /\ pc'[c] # "embed"
    /\ "embedText" \notin threw'[c]

\* C16: a request that missed the cache has called embedText and is resumed
\* as soon as its own call returns, wherever the other requests stand; when
\* the call returns a vector, the request goes on with that vector and
\* stores it under its normalized query, over whatever another request
\* stored there meanwhile, so the cache holds the vector written last; the
\* cache changes in no other step.
C16_LastWriteWins ==
    /\ [](\A c \in Callers :
            pc[c] = "embed" =>
               /\ "embedText" \in called[c]
               /\ ENABLED EmbedReturns(c, Paths))
    /\ [][ \A c \in Callers :
             Embedded(c) =>
                LET Q == frame[c].normalized[1]
                IN  /\ last'.caller = c
                    /\ last'.locals.normalized = << Q >>
                    /\ last'.locals.vector # <<>>
                    /\ Q \in DOMAIN EMB_CACHE'
                    /\ EMB_CACHE'[Q] = last'.locals.vector[1]
                    /\ \A K \in DOMAIN EMB_CACHE \ { Q } :
                         K \in DOMAIN EMB_CACHE' /\ EMB_CACHE'[K] = EMB_CACHE[K]
       ]_vars
    /\ [][ (\A c \in Callers : pc[c] = "embed" => pc'[c] = "embed") =>
             EMB_CACHE' = EMB_CACHE ]_vars

\* Two requests missed the cache for the same normalized query; the second
\* to return stored a vector other than the one the first had stored, and
\* the cache holds the second's.
C16_Witness ==
    /\ nreq = 2
    /\ HasVector
    /\ \E d \in Callers \ { Actor } :
         /\ Responded(d)
         /\ "embedText" \in called[d] \ threw[d]
    /\ "embedText" \in called[Actor]
    /\ Locals.normalized[1] \in DOMAIN first
    /\ Locals.normalized[1] \in DOMAIN EMB_CACHE
    /\ first[Locals.normalized[1]] # Locals.vector[1]
    /\ EMB_CACHE[Locals.normalized[1]] = Locals.vector[1]

\* C17: the slot is shared by all callers: when the first requests of two
\* callers are both suspended at correctSpelling, the text that the later
\* of them passed to correctSpelling is, if its question has at most 4
\* characters, the other caller's raw question, a blank and its own
\* question, although the caller never asked the other's question.
C17_SharedSlot ==
    \A c, d \in Callers :
        ( /\ c # d
          /\ nreq = 2
          /\ pc[c] = "spell"
          /\ pc[d] = "spell"
          /\ frame[d].prior = <<>>
          /\ frame[c].prior # <<>> )
        => frame[c].finalUser =
             IF Len(frame[c].question) <= SHORT
             THEN frame[d].question \o << " " >> \o frame[c].question
             ELSE frame[c].question

\* The first request of B, a short question, merged with the question of A's
\* first request, which is another one.
C17_Witness ==
    /\ nreq = 2
    /\ pc["A"] = "spell"
    /\ pc["B"] = "spell"
    /\ frame["A"].finalUser = frame["A"].question
    /\ frame["B"].question # frame["A"].question
    /\ Len(frame["B"].question) <= SHORT
    /\ frame["B"].finalUser =
         frame["A"].question \o << " " >> \o frame["B"].question

\* C18: no request looks the cache up, or calls embedText, with an empty
\* normalized query.
C18_NonEmptyLookup ==
    /\ <<>> \notin seen
    /\ <<>> \notin DOMAIN EMB_CACHE
    /\ \A c \in Callers :
         pc[c] = "embed" => frame[c].normalized # << <<>> >>

\* C19: in the one step in which a request reads the slot for the merge it
\* also overwrites it and only then suspends at correctSpelling: the slot it
\* reads holds the raw question of the merge step immediately before in the
\* order of all callers' merge steps, that is the prefix it merges into a
\* short question, the slot then holds its own raw question, and no other
\* step writes the slot.
C19_AtomicMerge ==
    [][ /\ \A c \in Callers :
             Entering(c)
             /\ ReachesMemory(last'.locals.body, last'.locals.route) =>
                LET q == Trim(last'.locals.body.text)
                IN  /\ memory = lastRaw
                    /\ frame'[c].finalUser =
                         IF lastRaw # <<>> /\ Len(q) <= SHORT
                         THEN lastRaw \o << " " >> \o q
                         ELSE q
                    /\ memory' = q
                    /\ lastRaw' = q
                    /\ pc'[c] = "spell"
        /\ lastRaw' # lastRaw \/ memory' # memory =>
             \E c \in Callers :
                 /\ Entering(c)
                 /\ ReachesMemory(last'.locals.body, last'.locals.route)
      ]_vars

\* The third merge step, taken by B while A's request is suspended further
\* on: B's short question is merged with the question of the merge step
\* just before.
C19_Witness ==
    /\ nreq = 3
    /\ pc["A"] \in { "norm", "embed", "llm" }
    /\ pc["B"] = "spell"
    /\ frame["B"].prior # <<>>
    /\ frame["B"].prior # frame["B"].question
    /\ frame["B"].finalUser =
         frame["B"].prior \o << " " >> \o frame["B"].question
    /\ memory = frame["B"].question

\* C20: once the cache holds a vector of length above 0 for a normalized
\* query, no step in which embedText returned a vector (of whatever length)
\* or in which no call returned replaces that entry with a vector of length
\* 0 or removes it.
C20_EntryKept ==
    [][ (\A c \in Callers : threw'[c] = threw[c]) =>
          \A Q \in DOMAIN EMB_CACHE :
              Len(EMB_CACHE[Q]) > 0 =>
                 /\ Q \in DOMAIN EMB_CACHE'
                 /\ Len(EMB_CACHE'[Q]) > 0 ]_vars

====
